---- MODULE Spec2Model ----
(***************************************************************************)
(* A model of the locator bridge: the receive channels of                  *)
(* receiving_interface.cpp and the orchestrator of locator_bridge_node.cpp *)
(* (module version gate, init(), the RPC callbacks and the sensor          *)
(* callbacks).  Each part has its own specification over the shared state: *)
(*   SpecRecv  the per-channel read handlers                               *)
(*   SpecPose  the localization pose channel's publishing                  *)
(*   SpecChan  what each channel's tryToParseData emits for one record     *)
(*   SpecVer   check_module_versions as a function of its input            *)
(*   Spec      init(), step by step, and the destructor                    *)
(*   SpecRun   the timer, service and seed callbacks after init()          *)
(*   SpecSend  the laser, laser2 and odometry callbacks after init()       *)
(*   SpecCheck checkLaserScan as a function of its input                   *)
(***************************************************************************)
EXTENDS Integers, Sequences, FiniteSets, TLC

VARIABLES
  \* ---- receive channels (one ReceivingInterface object per channel) ----
  stream,      \* the bytes the appliance writes to the channel's connection
  delivered,   \* how many of them have arrived at the socket
  rpos,        \* how many binary_reader_ has read from the socket stream
  pub,         \* the messages published so far
  last,        \* how the last onReadEvent ended
  att_start,   \* stream position at which its last decode attempt started
  closed,      \* the peer has closed the connection
  rlog,        \* what the last onReadEvent wrote to the console or the logger
  running,     \* the reactor runs and has onReadEvent registered for the socket
  pose_in,     \* localization pose channel: the record the converter decoded
  pose_out,    \* localization pose channel: what tryToParseData published
  rec_in,      \* any channel: the channel, how the converter ended, the pose decoded
  rec_done,    \* tryToParseData has run on it
  rec_pub,     \* the publish calls it made: publisher and message
  rec_tf,      \* the transforms it handed to tf_broadcaster_
  \* ---- module version gate ----
  actual,      \* module_versions as reported by the appliance
  vc_done,     \* check_module_versions has returned
  vc_result,   \* its return value
  \* ---- the node: what init() is given ----
  in_login,    \* the appliance's answer to login(user, pwd)
  in_token,    \* the session token it hands out
  app_config,  \* the config document resident on the appliance
  overrides,   \* the localization_client_config.* parameters of the node
  \* ---- the node: its state ----
  init_pc,     \* how far init() has come
  init_error,  \* the exception that ended init(), "none" if none
  token,       \* the session token held by loc_client_interface_
  timer_active,    \* session_refresh_timer_ exists
  calls,       \* the appliance calls issued so far, in order
  config_written,  \* the document of the last setConfigList call
  provide,     \* provide_laser_data_, provide_laser2_data_, provide_odometry_data_
  services,    \* services_
  seed_sub,    \* set_seed_sub_ exists
  senders,     \* the send channels whose SendingInterface thread was started
  receivers,   \* the receive channels whose thread was started
  \* ---- the node: callbacks after init() ----
  active,      \* per callback group, the callback it is executing
  last_recording_name,   \* last_recording_name_
  last_map_name,         \* last_map_name_
  log,         \* the error messages logged by the callbacks
  done,        \* the callback invocations that have returned, in order
  ticks,       \* the ticks of session_refresh_timer_ served so far
  alive,       \* "running", "destroyed" or "crashed"
  shutdown,    \* what ~LocatorBridgeNode has done, in order
  \* ---- the node: sensor callbacks ----
  num,         \* scan_num_, scan2_num_, odom_num_
  sends,       \* per send channel, the sendData calls made: sequence number and status
  diag,        \* per send channel, the sequence numbers checkLaserScan was run for
  prev_ts,     \* prev_laser_timestamp_, prev_laser2_timestamp_
  scans_sent,  \* per laser channel, the last scan: its stamp and scan_time as
               \* received, the scan_time sent, the stamp of the scan before it
  check_in,    \* a scan and a use-intensities answer handed to checkLaserScan
  check_out    \* what checkLaserScan reported for them

poseVars == <<pose_in, pose_out, rec_in, rec_done, rec_pub, rec_tf>>
recvVars == <<stream, delivered, rpos, pub, last, att_start, closed, rlog, running,
             poseVars>>
verVars  == <<actual, vc_done, vc_result>>
inVars   == <<in_login, in_token, app_config, overrides>>
nodeVars == <<init_pc, init_error, token, timer_active, calls, config_written,
              provide, services, seed_sub, senders, receivers>>
runVars  == <<active, last_recording_name, last_map_name, log, done, ticks,
              alive, shutdown>>
sendVars == <<num, sends, diag, prev_ts, scans_sent, check_in, check_out>>
bridgeVars == <<inVars, nodeVars, runVars, sendVars>>
vars     == <<recvVars, verVars, bridgeVars>>

\* ------------------------------------------------------------------------
\* Bounds
\* ------------------------------------------------------------------------
MaxRecords == 2       \* records the appliance writes, over all channels
MaxDeviations == 2    \* modules whose reported version differs from the registry

\* ========================================================================
\* Receive channels
\* ========================================================================
\* The receive channels setupBinaryReceiverInterfaces starts, one
\* ReceivingInterface subclass each.
ReceiveChannels ==
  {"client_control_mode", "client_map_map", "client_map_visualization",
   "client_recording_map", "client_recording_visualization",
   "client_localization_map", "client_localization_visualization",
   "client_localization_pose", "client_global_align_visualization"}

\* The port each ReceivingInterface subclass connects its own socket to.
Port(c) ==
  CASE c = "client_control_mode" -> "BINARY_CLIENT_CONTROL_MODE_PORT"
    [] c = "client_map_map" -> "BINARY_CLIENT_MAP_MAP_PORT"
    [] c = "client_map_visualization" -> "BINARY_CLIENT_MAP_VISUALIZATION_PORT"
    [] c = "client_recording_map" -> "BINARY_CLIENT_RECORDING_MAP_PORT"
    [] c = "client_recording_visualization" ->
         "BINARY_CLIENT_RECORDING_VISUALIZATION_PORT"
    [] c = "client_localization_map" -> "BINARY_CLIENT_LOCALIZATION_MAP_PORT"
    [] c = "client_localization_visualization" ->
         "BINARY_CLIENT_LOCALIZATION_VISUALIZATION_PORT"
    [] c = "client_localization_pose" -> "BINARY_CLIENT_LOCALIZATION_POSE_PORT"
    [] c = "client_global_align_visualization" ->
         "BINARY_CLIENT_GLOBAL_ALIGN_VISUALIZATION_PORT"

\* The channels whose byte streams are modelled.
Channels == {"client_control_mode", "client_map_map"}

\* Wire bytes.  A record is a count byte n followed by n payload bytes, the
\* shape of the appliance's count-prefixed variable sections.
Bytes == {0, 1, 2}
ValidCounts == {0, 1}

ValidRecords == {<<0>>} \cup {<<1, b>> : b \in Bytes}

\* The byte streams made of exactly n whole records.
RECURSIVE StreamsOf(_)
StreamsOf(n) ==
  IF n = 0 THEN {<<>>}
  ELSE {s \o r : s \in StreamsOf(n - 1), r \in ValidRecords}

\* The number of records of a stream of whole records.
RECURSIVE RecordCount(_)
RecordCount(s) ==
  IF s = <<>> THEN 0 ELSE 1 + RecordCount(SubSeq(s, 2 + s[1], Len(s)))

Streams == UNION {StreamsOf(n) : n \in 0..MaxRecords}

RECURSIVE SumOver(_, _)
SumOver(f, S) ==
  IF S = {} THEN 0
  ELSE LET x == CHOOSE y \in S : TRUE IN f[x] + SumOver(f, S \ {x})

\* What the appliance writes: per channel a stream of whole records, at
\* most MaxRecords records in all.
StreamAssignments ==
  {f \in [Channels -> Streams] :
     SumOver([c \in Channels |-> RecordCount(f[c])], Channels) <= MaxRecords}

\* The bytes a reader positioned at pos can read once lim bytes have arrived.
Available(s, pos, lim) == SubSeq(s, pos + 1, lim)

\* The channel decoder reading one record from the stream through the
\* reader: it reads the count, then the payload.  A read for which too few
\* bytes are there raises std::ios_base::failure (the reader's exception
\* mask) after taking the bytes that were there; an unusable count raises
\* another exception.  used is the number of bytes read from the stream.
convertDatagram2Message(avail) ==
  IF avail = <<>> THEN [outcome |-> "incomplete", used |-> 0, msg |-> <<>>]
  ELSE LET n == avail[1] IN
    IF n \notin ValidCounts THEN [outcome |-> "error", used |-> 1, msg |-> <<>>]
    ELSE IF Len(avail) - 1 < n
      THEN [outcome |-> "incomplete", used |-> Len(avail), msg |-> <<>>]
      ELSE [outcome |-> "ok", used |-> 1 + n, msg |-> SubSeq(avail, 2, 1 + n)]

\* tryToParseData: convert one datagram, then publish; an exception of the
\* conversion leaves before anything is published.
tryToParseData(avail) ==
  LET r == convertDatagram2Message(avail)
  IN [outcome |-> r.outcome, used |-> r.used,
      published |-> IF r.outcome = "ok" THEN <<r.msg>> ELSE <<>>]

\* The body of onReadEvent's try block: while (ccm_socket_.available())
\* tryToParseData(binary_reader_).  The loop ends when nothing is available
\* ("drained") or when an attempt throws; nothing rewinds the reader.
RECURSIVE ReadLoop(_, _, _, _, _)
ReadLoop(s, pos, lim, out, att) ==
  IF pos >= lim
    THEN [pos |-> pos, out |-> out, outcome |-> "drained", att |-> att]
    ELSE LET r == tryToParseData(Available(s, pos, lim))
         IN IF r.outcome = "ok"
              THEN ReadLoop(s, pos + r.used, lim, out \o r.published, pos)
              ELSE [pos |-> pos + r.used, out |-> out \o r.published,
                    outcome |-> r.outcome, att |-> pos]

\* The appliance writes k more bytes of the channel's stream.
Deliver(c, k) ==
  /\ ~closed[c]
  /\ k >= 1
  /\ delivered[c] + k <= Len(stream[c])
  /\ delivered' = [delivered EXCEPT ![c] = @ + k]
  /\ UNCHANGED <<stream, rpos, pub, last, att_start, closed, rlog, running,
                 poseVars, verVars, bridgeVars>>

\* The appliance closes the channel's connection.
PeerClose(c) ==
  /\ ~closed[c]
  /\ closed' = [closed EXCEPT ![c] = TRUE]
  /\ UNCHANGED <<stream, delivered, rpos, pub, last, att_start, rlog, running,
                 poseVars, verVars, bridgeVars>>

\* The socket is readable: bytes are waiting, or the peer has closed.
Readable(c) == delivered[c] > rpos[c] \/ closed[c]

\* A variant of HandlerLog: a notification without bytes is not mentioned.
HandlerLog_silent_zero(available, outcome) ==
  IF available # 0 /\ outcome = "error"
    THEN "Caught exception in ReceivingInterface!" ELSE ""

\* What one onReadEvent writes to the console and the logger: the remark on
\* a notification without bytes, the error of catch (...); the catch of
\* std::ios_base::failure writes nothing.
HandlerLog(available, outcome) ==
  IF available = 0 THEN "received msg of length 0... Connection closed?"
  ELSE IF outcome = "error" THEN "Caught exception in ReceivingInterface!"
  ELSE ""

\* A variant of Caught: only std::ios_base::failure is caught.
Caught_only_incomplete(outcome) == outcome \in {"drained", "incomplete"}

\* Whether onReadEvent returns to the reactor normally: the try block ends,
\* or one of the two catch clauses takes the exception.
Caught(outcome) == outcome \in {"drained", "incomplete", "error"}

\* A variant of onReadEvent: the channels share one reader, and an attempt
\* that throws drops what every channel has buffered.
onReadEvent_shared_reader(c) ==
  /\ running[c]
  /\ Readable(c)
  /\ LET r == ReadLoop(stream[c], rpos[c], delivered[c], <<>>, rpos[c])
     IN /\ rpos' = IF r.outcome \in {"incomplete", "error"}
                     THEN [d \in Channels |-> IF d = c THEN r.pos ELSE delivered[d]]
                     ELSE [rpos EXCEPT ![c] = r.pos]
        /\ pub' = [pub EXCEPT ![c] = @ \o r.out]
        /\ att_start' = IF delivered[c] = rpos[c] THEN att_start
                        ELSE [att_start EXCEPT ![c] = r.att]
        /\ last' = [last EXCEPT ![c] =
             IF delivered[c] = rpos[c] THEN "zero"
             ELSE IF r.outcome = "drained" THEN "ok" ELSE r.outcome]
        /\ rlog' = [rlog EXCEPT ![c] = HandlerLog(delivered[c] - rpos[c], r.outcome)]
        /\ running' = [running EXCEPT ![c] = Caught(r.outcome)]
  /\ UNCHANGED <<stream, delivered, closed, poseVars, verVars, bridgeVars>>

\* onReadEvent, the reactor's callback for a readable notification.
onReadEvent(c) ==
  /\ running[c]
  /\ Readable(c)
  /\ LET r == ReadLoop(stream[c], rpos[c], delivered[c], <<>>, rpos[c])
     IN /\ rpos' = [rpos EXCEPT ![c] = r.pos]
        /\ pub' = [pub EXCEPT ![c] = @ \o r.out]
        /\ att_start' = IF delivered[c] = rpos[c] THEN att_start
                        ELSE [att_start EXCEPT ![c] = r.att]
        /\ last' = [last EXCEPT ![c] =
             IF delivered[c] = rpos[c] THEN "zero"
             ELSE IF r.outcome = "drained" THEN "ok" ELSE r.outcome]
        /\ rlog' = [rlog EXCEPT ![c] = HandlerLog(delivered[c] - rpos[c], r.outcome)]
        /\ running' = [running EXCEPT ![c] = Caught(r.outcome)]
  /\ UNCHANGED <<stream, delivered, closed, poseVars, verVars, bridgeVars>>

\* ------------------------------------------------------------------------
\* The localization pose channel
\* ------------------------------------------------------------------------
MAP_FRAME_ID == "map"
LASER_FRAME_ID == "laser"

CovValues == {0, 1, 2}

PoseStampeds ==
  [header : [stamp : {7, 8}, frame_id : {"map"}],
   pose : [position : {<<1, 2, 0>>}, orientation : {"q_identity"}]]

\* What convertClientLocalizationPoseDatagram2Message hands back for one
\* record: the pose record, the pose, the six covariance values and the
\* lidar odometry pose.
DecodedPoseRecords ==
  [client_localization_pose : {"record"},
   pose : PoseStampeds,
   covariance : [0..5 -> CovValues],
   lidar_odo_pose : {"lidar_odo"}]

NoPoseRecord ==
  [client_localization_pose |-> "record",
   pose |-> [header |-> [stamp |-> 7, frame_id |-> "map"],
             pose |-> [position |-> <<1, 2, 0>>, orientation |-> "q_identity"]],
   covariance |-> [i \in 0..5 |-> 0],
   lidar_odo_pose |-> "lidar_odo"]

\* A variant of PackCovariance: the six values fill the first six positions.
PackCovariance_leading(covariance) ==
  [i \in 0..35 |-> IF i \in 0..5 THEN covariance[i] ELSE 0]

\* poseWithCov.pose.covariance: the 36 doubles of a freshly constructed
\* message are zero; six of them are assigned.
PackCovariance(covariance) ==
  [i \in 0..35 |->
     CASE i = 0 -> covariance[0]
       [] i = 1 -> covariance[1]
       [] i = 5 -> covariance[2]
       [] i = 7 -> covariance[3]
       [] i = 11 -> covariance[4]
       [] i = 35 -> covariance[5]
       [] OTHER -> 0]

\* publishTransform(pose, parent_frame, child_frame)
publishTransform(pose, parent_frame, child_frame) ==
  [stamp |-> pose.header.stamp, frame_id |-> parent_frame,
   child_frame_id |-> child_frame,
   translation |-> pose.pose.position, rotation |-> pose.pose.orientation]

\* ClientLocalizationPoseInterface::tryToParseData on a record the
\* converter decoded: the transform and the three messages it publishes.
ClientLocalizationPose_tryToParseData ==
  /\ pose_out = <<>>
  /\ LET poseWithCov ==
           [header |-> pose_in.pose.header,
            pose |-> [pose |-> pose_in.pose.pose,
                      covariance |-> PackCovariance(pose_in.covariance)]]
     IN pose_out' =
          << [transform |-> publishTransform(pose_in.pose, MAP_FRAME_ID, LASER_FRAME_ID),
              client_localization_pose |-> pose_in.client_localization_pose,
              pose |-> poseWithCov,
              lidar_odo_pose |-> pose_in.lidar_odo_pose] >>
  /\ UNCHANGED <<pose_in, rec_in, rec_done, rec_pub, rec_tf, stream, delivered,
                 rpos, pub, last, att_start, closed, rlog, running,
                 verVars, bridgeVars>>

\* ------------------------------------------------------------------------
\* What each channel's tryToParseData emits for one record
\* ------------------------------------------------------------------------
ConverterOutcomes == {"ok", "incomplete", "error"}

ChannelPoses ==
  [header : [stamp : {7, 8}, frame_id : {"map"}],
   pose : [position : {<<1, 2, 0>>, <<3, 4, 0>>},
           orientation : {"q_identity", "q_quarter_turn"}]]

NoRecord ==
  [channel |-> "client_control_mode", outcome |-> "incomplete",
   pose |-> [header |-> [stamp |-> 7, frame_id |-> "map"],
             pose |-> [position |-> <<1, 2, 0>>, orientation |-> "q_identity"]]]

\* publisher->publish(message)
Publish(publisher, message) == [publisher |-> publisher, message |-> message]

\* A variant of Transforms: the localization visualization broadcasts too.
Transforms_every_pose(c, pose) ==
  IF c \in {"client_map_visualization", "client_recording_visualization",
            "client_localization_visualization", "client_localization_pose"}
    THEN <<publishTransform(pose, MAP_FRAME_ID, LASER_FRAME_ID)>>
    ELSE <<>>

\* The publishTransform calls of the channel's tryToParseData.
Transforms(c, pose) ==
  IF c \in {"client_map_visualization", "client_recording_visualization",
            "client_localization_pose"}
    THEN <<publishTransform(pose, MAP_FRAME_ID, LASER_FRAME_ID)>>
    ELSE <<>>

\* The publish calls of the channel's tryToParseData, in their order.
Publishes(c) ==
  CASE c = "client_control_mode" ->
         <<Publish("client_control_mode_pub_", "client_control_mode")>>
    [] c = "client_map_map" ->
         <<Publish("client_map_map_pub_", "map")>>
    [] c = "client_map_visualization" ->
         <<Publish("client_map_visualization_pub_", "client_map_visualization"),
           Publish("client_map_visualization_pose_pub_", "pose"),
           Publish("client_map_visualization_scan_pub_", "scan"),
           Publish("client_map_visualization_path_poses_pub_", "path_poses")>>
    [] c = "client_recording_map" ->
         <<Publish("client_recording_map_pub_", "map")>>
    [] c = "client_recording_visualization" ->
         <<Publish("client_recording_visualization_pub_",
                   "client_recording_visualization"),
           Publish("client_recording_visualization_pose_pub_", "pose"),
           Publish("client_recording_visualization_scan_pub_", "scan"),
           Publish("client_recording_visualization_path_poses_pub_", "path_poses")>>
    [] c = "client_localization_map" ->
         <<Publish("client_localization_map_pub_", "map")>>
    [] c = "client_localization_visualization" ->
         <<Publish("client_localization_visualization_pub_",
                   "client_localization_visualization"),
           Publish("client_localization_visualization_pose_pub_", "pose"),
           Publish("client_localization_visualization_scan_pub_", "scan")>>
    [] c = "client_localization_pose" ->
         <<Publish("client_localization_pose_pub_", "client_localization_pose"),
           Publish("client_localization_pose_pose_pub_", "poseWithCov"),
           Publish("client_localization_pose_lidar_odo_pose_pub_", "lidar_odo_pose")>>
    [] c = "client_global_align_visualization" ->
         <<Publish("client_global_align_visualization_pub_",
                   "client_global_align_visualization"),
           Publish("client_global_align_visualization_poses_pub_", "poses"),
           Publish("client_global_align_visualization_landmarks_poses_pub_",
                   "landmark_poses")>>

\* A variant of ConvertThenPublish: the record's first message goes out
\* before the converter has ended.
ConvertThenPublish_early(c, outcome, pose) ==
  IF outcome = "ok"
    THEN [tf |-> Transforms(c, pose), pub |-> Publishes(c)]
    ELSE [tf |-> <<>>, pub |-> <<Publishes(c)[1]>>]

\* The body of every tryToParseData: the converter runs first, and its
\* exception leaves the function before the first publish.
ConvertThenPublish(c, outcome, pose) ==
  IF outcome = "ok"
    THEN [tf |-> Transforms(c, pose), pub |-> Publishes(c)]
    ELSE [tf |-> <<>>, pub |-> <<>>]

\* One tryToParseData of the channel rec_in names.
ChannelTryToParseData ==
  /\ ~rec_done
  /\ rec_done' = TRUE
  /\ LET r == ConvertThenPublish(rec_in.channel, rec_in.outcome, rec_in.pose)
     IN /\ rec_pub' = r.pub
        /\ rec_tf' = r.tf
  /\ UNCHANGED <<rec_in, pose_in, pose_out, stream, delivered, rpos, pub, last,
                 att_start, closed, rlog, running, verVars, bridgeVars>>

\* ========================================================================
\* Module version gate
\* ========================================================================
REQUIRED_MODULE_VERSIONS ==
  ("AboutModules" :> <<5, 0>>) @@ ("Session" :> <<3, 1>>) @@
  ("Licensing" :> <<6, 1>>) @@ ("Config" :> <<5, 0>>) @@
  ("AboutBuild" :> <<3, 0>>) @@ ("Certificate" :> <<3, 0>>) @@
  ("System" :> <<3, 1>>) @@ ("ClientControl" :> <<3, 1>>) @@
  ("ClientRecording" :> <<4, 0>>) @@ ("ClientMap" :> <<4, 0>>) @@
  ("ClientLocalization" :> <<6, 0>>) @@ ("ClientGlobalAlign" :> <<4, 0>>) @@
  ("ClientSensor" :> <<5, 1>>)

RequiredNames == DOMAIN REQUIRED_MODULE_VERSIONS

\* A variant of version_ok: the minor version must be strictly bigger.
version_ok_strict_minor(actual_version, required_version) ==
  /\ actual_version[1] = required_version[1]
  /\ actual_version[2] > required_version[2]

\* "major version number needs to match, minor version number equal or bigger"
version_ok(actual_version, required_version) ==
  /\ actual_version[1] = required_version[1]
  /\ actual_version[2] >= required_version[2]

\* The loop of check_module_versions over the registry, with its early
\* returns; todo is the part of the registry not yet visited.
RECURSIVE check_loop(_, _)
check_loop(todo, module_versions) ==
  IF todo = {} THEN TRUE
  ELSE LET module_name == CHOOSE m \in todo : TRUE
           required_version == REQUIRED_MODULE_VERSIONS[module_name]
       IN IF module_name \notin DOMAIN module_versions THEN FALSE
          ELSE IF version_ok(module_versions[module_name], required_version)
            THEN check_loop(todo \ {module_name}, module_versions)
            ELSE FALSE

check_module_versions(module_versions) ==
  check_loop(RequiredNames, module_versions)

\* Inputs of the gate: the registry's versions with at most MaxDeviations
\* modules absent or reported with another version, with or without modules
\* the registry does not name.
ExtraModules == ("Diagnostic" :> <<4, 0>>) @@ ("User" :> <<0, 9>>)

\* The four versions next to v.
OtherVersions(v) ==
  << <<v[1] + 1, v[2]>>, <<v[1] - 1, v[2]>>, <<v[1], v[2] + 1>>, <<v[1], v[2] - 1>> >>

Restrict(f, S) == [x \in S |-> f[x]]

\* The sets of modules a report can deviate in.
DeviationSets == {S \in SUBSET RequiredNames : Cardinality(S) <= MaxDeviations}

\* The registry's versions, except that every module of D is either absent
\* (choice 0) or reported with one of the four versions next to the
\* required one (choices 1 to 4), with or without unregistered modules.
Deviate(D, g, extras) ==
  LET reported ==
        [m \in {x \in RequiredNames : x \notin D \/ g[x] # 0} |->
           IF m \in D THEN OtherVersions(REQUIRED_MODULE_VERSIONS[m])[g[m]]
           ELSE REQUIRED_MODULE_VERSIONS[m]]
  IN IF extras THEN reported @@ ExtraModules ELSE reported

\* check_module_versions(module_versions) is called and returns.
CheckModuleVersions ==
  /\ ~vc_done
  /\ vc_done' = TRUE
  /\ vc_result' = check_module_versions(actual)
  /\ UNCHANGED <<actual, recvVars, bridgeVars>>

\* ========================================================================
\* The node: init()
\* ========================================================================
NoToken == "none"
Tokens == {"s1", "s2"}

SendChannels == {"laser", "laser2", "odom"}

ServiceNames ==
  {"get_config_entry", "start_visual_recording", "stop_visual_recording",
   "start_map", "stop_map", "start_localization", "stop_localization",
   "send_map", "set_map", "list_client_maps"}

\* One appliance call: the callback that issued it, the interface function
\* or RPC method, the token it carried and the session token at that
\* moment, where its request document came from, and the fields set on it.
Call(cb, method, tok, cur, via, args) ==
  [cb |-> cb, method |-> method, tok |-> tok, cur |-> cur, via |-> via,
   args |-> args]

\* login(user, pwd): on a rejected login or an unreachable appliance it
\* fails with an error, which leaves init() as an exception; otherwise the
\* session holds the token the appliance handed out.
login(answer, handed) ==
  [thrown |-> answer # "ok",
   error |-> IF answer = "ok" THEN "none" ELSE answer,
   token |-> IF answer = "ok" THEN handed ELSE NoToken]

\* getSessionQuery(): an empty query holding the current token.
getSessionQuery(tok) == [tok |-> tok, via |-> "getSessionQuery"]

\* Config values: a typed value and its toString() text.
Str(v) == [type |-> "string", text |-> v]
Bool(v) == [type |-> "bool", text |-> v]
toString(value) == value.text

SupportedTypes ==
  {"bool", "integer", "double", "string",
   "bool_array", "integer_array", "double_array", "string_array"}

\* A variant of ApplyOverrides: a parameter of whatever type is assigned.
ApplyOverrides_any_type(doc, params) ==
  [k \in DOMAIN doc \cup DOMAIN params |->
     IF k \in DOMAIN params THEN params[k] ELSE doc[k]]

\* The for_each of syncConfig: every parameter of a supported type is
\* assigned at its key, the others are warned about and skipped.
ApplyOverrides(doc, params) ==
  LET taken == {k \in DOMAIN params : params[k].type \in SupportedTypes}
  IN [k \in DOMAIN doc \cup taken |-> IF k \in taken THEN params[k] ELSE doc[k]]

\* A variant of FeatureFlags: laser2 goes by its type alone.
FeatureFlags_laser2_by_type(doc) ==
  [laser |-> toString(doc["ClientSensor.laser.type"]) = "simple",
   laser2 |-> toString(doc["ClientSensor.laser2.type"]) = "simple",
   odom |-> toString(doc["ClientSensor.enableOdometry"]) = "true"]

\* The three feature flags syncConfig derives from the merged document.
FeatureFlags(doc) ==
  [laser |-> toString(doc["ClientSensor.laser.type"]) = "simple",
   laser2 |-> /\ toString(doc["ClientSensor.enableLaser2"]) = "true"
              /\ toString(doc["ClientSensor.laser2.type"]) = "simple",
   odom |-> toString(doc["ClientSensor.enableOdometry"]) = "true"]

\* What init() can be given.
LoginAnswers == {"ok", "AuthError", "UnreachableError"}

InitActuals ==
  {REQUIRED_MODULE_VERSIONS,
   [REQUIRED_MODULE_VERSIONS EXCEPT !["Session"] = <<3, 0>>],
   Restrict(REQUIRED_MODULE_VERSIONS, RequiredNames \ {"ClientMap"})}

AppConfigs ==
  {("ClientSensor.laser.type" :> Str(lt)) @@
   ("ClientSensor.enableLaser2" :> Bool(e2)) @@
   ("ClientSensor.laser2.type" :> Str(l2)) @@
   ("ClientSensor.enableOdometry" :> Bool(eo)) :
     lt \in {"simple", "none"}, e2 \in {"true", "false"},
     l2 \in {"simple", "none"}, eo \in {"true", "false"}}

EmptyDoc == [k \in {} |-> Str("")]

ParameterSets ==
  {EmptyDoc,
   "ClientSensor.laser.type" :> Str("simple"),
   "ClientSensor.enableOdometry" :> Bool("true"),
   "ClientSensor.laser2.type" :> [type |-> "byte_array", text |-> "simple"],
   "ClientLocalization.autostart" :> Bool("true")}

\* A variant of InitLogin: a failed login does not end init().
InitLogin_failure_ignored ==
  /\ init_pc = "start"
  /\ LET r == login(in_login, in_token)
     IN /\ token' = r.token
        /\ calls' = Append(calls, Call("init", "login", NoToken, NoToken, "login", <<>>))
        /\ init_error' = r.error
        /\ init_pc' = "logged_in"
  /\ UNCHANGED <<timer_active, config_written, provide, services, seed_sub,
                 senders, receivers, inVars, runVars, sendVars, recvVars, verVars>>

\* init(), up to and including loc_client_interface_->login(user, pwd).
InitLogin ==
  /\ init_pc = "start"
  /\ LET r == login(in_login, in_token)
     IN /\ token' = r.token
        /\ calls' = Append(calls, Call("init", "login", NoToken, NoToken, "login", <<>>))
        /\ init_error' = r.error
        /\ init_pc' = IF r.thrown THEN "aborted" ELSE "logged_in"
  /\ UNCHANGED <<timer_active, config_written, provide, services, seed_sub,
                 senders, receivers, inVars, runVars, sendVars, recvVars, verVars>>

\* session_refresh_timer_ = create_wall_timer(30s, ...).
InitCreateTimer ==
  /\ init_pc = "logged_in"
  /\ timer_active' = TRUE
  /\ init_pc' = "timer_created"
  /\ UNCHANGED <<init_error, token, calls, config_written, provide, services,
                 seed_sub, senders, receivers, inVars, runVars, sendVars,
                 recvVars, verVars>>

\* getAboutModules() and the version gate; a failed check throws.
InitVersionGate ==
  /\ init_pc = "timer_created"
  /\ calls' = Append(calls, Call("init", "getAboutModules", token, token, "interface", <<>>))
  /\ LET compatible == check_module_versions(actual)
     IN /\ vc_done' = TRUE
        /\ vc_result' = compatible
        /\ init_error' = IF compatible THEN "none" ELSE "incompatible"
        /\ init_pc' = IF compatible THEN "versions_ok" ELSE "aborted"
  /\ UNCHANGED <<actual, token, timer_active, config_written, provide, services,
                 seed_sub, senders, receivers, inVars, runVars, sendVars, recvVars>>

\* syncConfig(): fetch, override, derive the flags, write back.
syncConfig ==
  /\ init_pc = "versions_ok"
  /\ LET loc_client_config == ApplyOverrides(app_config, overrides)
     IN /\ provide' = FeatureFlags(loc_client_config)
        /\ config_written' = loc_client_config
        /\ calls' = calls \o
             << Call("init", "getConfigList", token, token, "interface", <<>>),
                Call("init", "setConfigList", token, token, "interface", <<>>) >>
  /\ init_pc' = "synced"
  /\ UNCHANGED <<init_error, token, timer_active, services, seed_sub, senders,
                 receivers, inVars, runVars, sendVars, recvVars, verVars>>

\* The ten create_service calls and the /initialpose subscription.
InitServices ==
  /\ init_pc = "synced"
  /\ services' = ServiceNames
  /\ seed_sub' = TRUE
  /\ init_pc' = "services_created"
  /\ UNCHANGED <<init_error, token, timer_active, calls, config_written, provide,
                 senders, receivers, inVars, runVars, sendVars, recvVars, verVars>>

\* The SendingInterface, thread and subscription of every enabled channel.
InitSenders ==
  /\ init_pc = "services_created"
  /\ senders' = {ch \in SendChannels : provide[ch]}
  /\ init_pc' = "senders_created"
  /\ UNCHANGED <<init_error, token, timer_active, calls, config_written, provide,
                 services, seed_sub, receivers, inVars, runVars, sendVars,
                 recvVars, verVars>>

\* A variant of setupBinaryReceiverInterfaces: the receive channels are
\* started only if laser data is provided.
setupBinaryReceiverInterfaces_if_laser ==
  /\ init_pc = "senders_created"
  /\ receivers' = IF provide.laser THEN ReceiveChannels ELSE {}
  /\ init_pc' = "done"
  /\ UNCHANGED <<init_error, token, timer_active, calls, config_written, provide,
                 services, seed_sub, senders, inVars, runVars, sendVars,
                 recvVars, verVars>>

\* setupBinaryReceiverInterfaces(host).
setupBinaryReceiverInterfaces ==
  /\ init_pc = "senders_created"
  /\ receivers' = ReceiveChannels
  /\ init_pc' = "done"
  /\ UNCHANGED <<init_error, token, timer_active, calls, config_written, provide,
                 services, seed_sub, senders, inVars, runVars, sendVars,
                 recvVars, verVars>>

\* The appliance calls of a successful init().
InitCalls(tok) ==
  << Call("init", "login", NoToken, NoToken, "login", <<>>),
     Call("init", "getAboutModules", tok, tok, "interface", <<>>),
     Call("init", "getConfigList", tok, tok, "interface", <<>>),
     Call("init", "setConfigList", tok, tok, "interface", <<>>) >>

\* ========================================================================
\* The node: timer, service and seed callbacks
\* ========================================================================
MaxRuntimeCalls == 2   \* callback invocations after init() has returned

REFRESH_PERIOD == 30   \* create_wall_timer(30s, ...)

\* The callback groups: callback_group_services_ (MutuallyExclusive), given
\* to the refresh timer and to every service, and the node's default group,
\* which the subscriptions created without a group belong to.  The executor
\* runs at most one callback of a group at a time; callbacks of different
\* groups may run at the same time.
Groups == {"services", "default"}

GroupOf(cb) == IF cb = "refresh" \/ cb \in ServiceNames THEN "services" ELSE "default"

NoQuery == [tok |-> NoToken, via |-> "none"]
Idle == [cb |-> "idle", req |-> <<>>, method |-> "", q |-> NoQuery, args |-> <<>>]

Names == {"", "rec1"}

\* Orientations of a seed pose, and the yaw tf2's getRPY reads from them
\* (in degrees).
Orientations == {"q_identity", "q_quarter_turn"}

getRPY(orientation) ==
  CASE orientation = "q_identity" -> [roll |-> 0, pitch |-> 0, yaw |-> 0]
    [] orientation = "q_quarter_turn" -> [roll |-> 0, pitch |-> 0, yaw |-> 90]

\* RosMsgsDatagramConverter::makePose2d(pose)
makePose2d(pose) == [x |-> pose.x, y |-> pose.y, a |-> pose.theta]

\* The requests a callback can be invoked with.  A seed pose is
\* <<frame_id, position.x, position.y, orientation>>; the timer's callback
\* is invoked with the time of its tick.
Requests(cb) ==
  CASE cb \in {"start_visual_recording", "send_map", "set_map"} ->
         {<<n>> : n \in Names}
    [] cb = "start_map" -> {<<r, m>> : r \in Names, m \in {"", "map1"}}
    [] cb = "set_seed" ->
         {<<f, 1, 2, o>> : f \in {MAP_FRAME_ID, "odom"}, o \in Orientations}
    [] cb = "get_config_entry" -> {<<"ClientSensor.laser.useIntensities">>}
    [] cb = "refresh" -> {<<(ticks + 1) * REFRESH_PERIOD>>}
    [] OTHER -> {<<>>}

Callbacks == {"refresh", "set_seed"} \cup ServiceNames

\* The RPC method or interface function a callback calls.
Method(cb) ==
  CASE cb = "refresh" -> "refresh"
    [] cb = "get_config_entry" -> "get_config_entry"
    [] cb = "send_map" -> "clientMapSend"
    [] cb = "set_map" -> "setConfigList"
    [] cb = "list_client_maps" -> "clientMapList"
    [] cb = "start_localization" -> "clientLocalizationStart"
    [] cb = "stop_localization" -> "clientLocalizationStop"
    [] cb = "set_seed" -> "clientLocalizationSetSeed"
    [] cb = "start_visual_recording" -> "clientRecordingStartVisualRecording"
    [] cb = "stop_visual_recording" -> "clientRecordingStopVisualRecording"
    [] cb = "start_map" -> "clientMapStart"
    [] cb = "stop_map" -> "clientMapStop"

\* A variant of QueryFor: clientMapStopCb builds its query without the session.
QueryFor_stop_map_bare(cb) ==
  IF cb \in {"set_map", "get_config_entry", "stop_map"} THEN NoQuery
  ELSE getSessionQuery(token)

\* The request document a callback starts from: getSessionQuery(), except
\* in clientMapSetCb, which fills a bare Poco::DynamicStruct, and in
\* clientConfigGetEntryCb, which passes the entry's name.
QueryFor(cb) ==
  IF cb \in {"set_map", "get_config_entry"} THEN NoQuery
  ELSE getSessionQuery(token)

\* A variant of FrameAccepted: a seed pose is taken in whatever frame.
FrameAccepted_any(frame_id) == frame_id = frame_id

\* setSeedCallback's test of msg->header.frame_id.
FrameAccepted(frame_id) == frame_id = MAP_FRAME_ID

\* A variant of MapNameFor: an omitted name falls back to the recording.
MapNameFor_last_recording(name) ==
  IF name = "" THEN last_recording_name ELSE name

\* req->name.empty() ? last_map_name_ : req->name
MapNameFor(name) == IF name = "" THEN last_map_name ELSE name

\* The fields a callback sets on its request document.
Args(cb, req) ==
  CASE cb = "get_config_entry" -> << <<"name", req[1]>> >>
    [] cb = "send_map" -> << <<"clientMapName", MapNameFor(req[1])>> >>
    [] cb = "set_map" ->
         << <<"ClientLocalization.activeMapName", MapNameFor(req[1])>> >>
    [] cb = "set_seed" ->
         LET pose == [x |-> req[2], y |-> req[3], theta |-> getRPY(req[4]).yaw]
         IN << <<"enforceSeed", "true">>, <<"seedPose", makePose2d(pose)>> >>
    [] cb = "start_visual_recording" -> << <<"recordingName", req[1]>> >>
    [] cb = "start_map" ->
         LET recording_name == IF req[1] = "" THEN last_recording_name ELSE req[1]
             client_map_name ==
               IF req[2] = "" THEN "map-from-" \o recording_name ELSE req[2]
         IN << <<"recordingName", recording_name>>,
               <<"clientMapName", client_map_name>> >>
    [] OTHER -> <<>>

\* What a callback has in hand when it comes to its appliance call.
Prepare(cb, req) ==
  [cb |-> cb, req |-> req, method |-> Method(cb), q |-> QueryFor(cb),
   args |-> Args(cb, req)]

Registered(cb) ==
  CASE cb = "refresh" -> timer_active
    [] cb = "set_seed" -> seed_sub
    [] OTHER -> cb \in services

Busy == {g \in Groups : active[g] # Idle}

\* How an appliance call can end.
CallOutcomes == {"ok", "failed"}

\* A variant of refresh: a failed refresh leaves the timer's callback as an
\* exception.
refresh_failure_fatal(outcome) ==
  [logged |-> outcome = "failed", thrown |-> outcome = "failed"]

\* refresh(): a failed refresh is logged by the interface and returns.
refresh(outcome) == [logged |-> outcome = "failed", thrown |-> FALSE]

\* What a callback hands back to its caller once its appliance call has
\* ended: the service callbacks end in return true, whatever the call's
\* response; clientConfigGetEntryCb returns what get_config_entry returned;
\* the timer's and the subscription's callbacks return nothing.
Result(cb, outcome) ==
  CASE cb \in {"refresh", "set_seed"} -> "void"
    [] cb = "get_config_entry" -> IF outcome = "ok" THEN "true" ELSE "false"
    [] OTHER -> "true"

\* One returned callback invocation: the request, the index of its
\* appliance call in calls (0 if it made none), whether that call failed,
\* and what the callback returned.
Returned(cb, req, call, failed, result) ==
  [cb |-> cb, req |-> req, call |-> call, failed |-> failed, result |-> result]

\* The executor starts a callback: the handler runs up to its appliance
\* call.  setSeedCallback logs an error and returns at once on a pose in
\* another frame.
Begin(cb, req) ==
  /\ init_pc = "done"
  /\ alive = "running"
  /\ Registered(cb)
  /\ active[GroupOf(cb)] = Idle
  /\ Len(done) + Cardinality(Busy) < MaxRuntimeCalls
  /\ ticks' = IF cb = "refresh" THEN ticks + 1 ELSE ticks
  /\ IF cb = "set_seed" /\ ~FrameAccepted(req[1])
       THEN /\ log' = Append(log, [cb |-> cb, text |-> "wrong frame: " \o req[1]])
            /\ done' = Append(done, Returned(cb, req, 0, FALSE, Result(cb, "ok")))
            /\ UNCHANGED <<active, last_recording_name, last_map_name>>
       ELSE LET p == Prepare(cb, req)
            IN /\ active' = [active EXCEPT ![GroupOf(cb)] = p]
               /\ last_recording_name' =
                    IF cb = "start_visual_recording" THEN req[1] ELSE last_recording_name
               /\ last_map_name' =
                    IF cb = "start_map" THEN p.args[2][2] ELSE last_map_name
               /\ UNCHANGED <<log, done>>
  /\ UNCHANGED <<alive, shutdown, nodeVars, inVars, sendVars, recvVars, verVars>>

\* The callback's appliance call, which succeeds or fails, and the
\* callback's return.  A document handed to the interface without a query
\* (setConfigList, get_config_entry) is sent by the interface under the
\* session's token; refresh() keeps the session's token.
End(g, outcome) ==
  /\ active[g] # Idle
  /\ alive = "running"
  /\ LET a == active[g]
         carried == IF a.q.via = "getSessionQuery" THEN a.q.tok ELSE token
         via == IF a.q.via = "getSessionQuery" THEN "getSessionQuery" ELSE "interface"
         r == refresh(outcome)
     IN /\ calls' = Append(calls, Call(a.cb, a.method, carried, token, via, a.args))
        /\ config_written' =
             IF a.cb = "set_map" THEN (a.args[1][1] :> Str(a.args[1][2]))
             ELSE config_written
        /\ token' = token
        /\ log' = IF a.cb = "refresh" /\ r.logged
                    THEN Append(log, [cb |-> a.cb, text |-> "refresh failed"])
                    ELSE log
        /\ alive' = IF a.cb = "refresh" /\ r.thrown THEN "crashed" ELSE alive
        /\ done' = Append(done, Returned(a.cb, a.req, Len(calls) + 1,
                                         outcome = "failed", Result(a.cb, outcome)))
  /\ active' = [active EXCEPT ![g] = Idle]
  /\ UNCHANGED <<init_pc, init_error, timer_active, provide, services, seed_sub,
                 senders, receivers, last_recording_name, last_map_name, ticks,
                 shutdown, inVars, sendVars, recvVars, verVars>>

\* ---- ~LocatorBridgeNode ----
\* One step of the shutdown: what is done, and on which dispatchers.
Event(op, on) == [op |-> op, on |-> on]

\* What calling stop() through the empty laser_sending_interface_ can do.
NullDerefOutcomes == {"crash", "no_effect"}

\* The destructor's body.  The laser dispatcher is stopped and joined
\* without a test of the pointer, laser2 and odometry only if they exist.
\* crash: the call through the empty pointer ends the process.
DestructorBody(started, crash) ==
  (IF "laser" \in started
     THEN << Event("stop", {"laser"}), Event("join", {"laser"}) >>
     ELSE IF crash THEN << Event("stop_null", {"laser"}) >>
     ELSE << Event("stop_null", {"laser"}), Event("join_unstarted", {"laser"}) >>)
  \o (IF crash \/ "laser2" \notin started THEN <<>>
      ELSE << Event("stop", {"laser2"}), Event("join", {"laser2"}) >>)
  \o (IF crash \/ "odom" \notin started THEN <<>>
      ELSE << Event("stop", {"odom"}), Event("join", {"odom"}) >>)

\* The members destroyed after the body: every ReceivingInterface stops its
\* reactor and shuts its socket down, then the refresh timer is cancelled.
DestroyMembers ==
  (IF receivers = {} THEN <<>> ELSE << Event("stop", receivers) >>)
  \o (IF timer_active THEN << Event("cancel_timer", {}) >> ELSE <<>>)

\* The node is destroyed, after init() has returned or thrown.
Destructor(ub) ==
  /\ init_pc \in {"done", "aborted"}
  /\ alive = "running"
  /\ \A g \in Groups : active[g] = Idle
  /\ LET crash == "laser" \notin senders /\ ub = "crash"
     IN /\ shutdown' = DestructorBody(senders, crash)
                         \o (IF crash THEN <<>> ELSE DestroyMembers)
        /\ alive' = IF crash THEN "crashed" ELSE "destroyed"
        /\ timer_active' = IF crash THEN timer_active ELSE FALSE
  /\ UNCHANGED <<init_pc, init_error, token, calls, config_written, provide,
                 services, seed_sub, senders, receivers, active,
                 last_recording_name, last_map_name, log, done, ticks, inVars,
                 sendVars, recvVars, verVars>>

\* ========================================================================
\* The node: sensor callbacks
\* ========================================================================
MaxReadings == 3   \* sensor readings delivered, over all send channels

LaserChannels == {"laser", "laser2"}

\* Laser scans; angles in thousandths of a radian.
Scans ==
  [scan_time : {0, 3}, stamp : {10, 20}, angle_min : {0}, angle_increment : {10},
   angle_max : {1000, 1500}, n_ranges : {101}, n_intensities : {101, 0}]

\* What get_config_entry can answer for ClientSensor.<laser>.useIntensities.
Lookups ==
  {[found |-> TRUE, value |-> "true"], [found |-> TRUE, value |-> "false"],
   [found |-> FALSE, value |-> ""]}

SendingStatus == {"OK", "IO_EXCEPTION"}

Abs(x) == IF x < 0 THEN -x ELSE x

\* A variant of AngleConsistent: a scan exactly half an increment off is
\* invalid too.
AngleConsistent_strict(msg) ==
  2 * Abs(msg.angle_min + (msg.n_ranges - 1) * msg.angle_increment - msg.angle_max)
    < Abs(msg.angle_increment)

\* fabs(angle_min + (ranges.size() - 1) * angle_increment - angle_max)
\*   > fabs(0.5 * angle_increment) reports the scan as invalid.
AngleConsistent(msg) ==
  2 * Abs(msg.angle_min + (msg.n_ranges - 1) * msg.angle_increment - msg.angle_max)
    <= Abs(msg.angle_increment)

\* checkLaserScan(msg, laser): the error it logs, and whether it looked the
\* use-intensities setting up.
checkLaserScan(msg, lookup) ==
  IF ~AngleConsistent(msg)
    THEN [looked_up |-> FALSE, finding |-> "angle_invalid"]
    ELSE [looked_up |-> TRUE,
          finding |-> IF /\ lookup.found
                         /\ lookup.value = "true"
                         /\ msg.n_ranges # msg.n_intensities
                      THEN "length_mismatch" ELSE "none"]

\* Scans for checkLaserScan alone: both signs of the increment, and end
\* angles at, next to and far from half an increment off.
CheckedScans ==
  [scan_time : {0}, stamp : {10}, angle_min : {0, -500},
   angle_increment : {10, -10, 0},
   angle_max : {1000, 1005, 1006, 995, 994, 1500, 500, 0, -1000, -1005, -1006},
   n_ranges : {101, 1}, n_intensities : {101, 0}]

NoCheck == [scan_time |-> 0, stamp |-> 0, angle_min |-> 0, angle_increment |-> 0,
            angle_max |-> 0, n_ranges |-> 0, n_intensities |-> 0]

\* checkLaserScan run on its own on the scan in check_in.
CheckLaserScan ==
  /\ check_out = <<>>
  /\ check_out' = <<checkLaserScan(check_in.msg, check_in.lookup)>>
  /\ UNCHANGED <<check_in, num, sends, diag, prev_ts, scans_sent,
                 nodeVars, inVars, runVars, recvVars, verVars>>

\* msg->scan_time as the datagram gets it: a scan without one takes the time
\* since prev_laser_timestamp_, unless that is still zero.
ScanTime(msg, prev) ==
  IF msg.scan_time = 0 /\ prev # 0 THEN msg.stamp - prev ELSE msg.scan_time

\* A variant of PreIncrement: the counter is passed, then incremented.
PostIncrement(n) == [counter |-> n + 1, passed |-> n]

\* ++scan_num_ as an argument: the counter after, and the value passed on.
PreIncrement(n) == [counter |-> n + 1, passed |-> n + 1]

\* A variant of SendFailed: the check runs on every status but the failure.
SendFailed_inverted(status) == status # "IO_EXCEPTION"

\* sendData(...) == SendingInterface::SendingStatus::IO_EXCEPTION
SendFailed(status) == status = "IO_EXCEPTION"

ReadingsHandled == num["laser"] + num["laser2"] + num["odom"]

\* laser_callback and laser2_callback (ch tells which): the scan time, the
\* datagram with the next scan number, one sendData, and the check of the
\* scan if sending failed.  The datagram is recorded by its number.
laser_callback(ch, msg, status, lookup) ==
  /\ init_pc = "done"
  /\ ch \in LaserChannels \cap senders
  /\ ReadingsHandled < MaxReadings
  /\ prev_ts' = IF msg.scan_time = 0 THEN [prev_ts EXCEPT ![ch] = msg.stamp]
                ELSE prev_ts
  /\ scans_sent' = [scans_sent EXCEPT ![ch] =
                      [before |-> @.stamp, stamp |-> msg.stamp,
                       received |-> msg.scan_time,
                       scan_time |-> ScanTime(msg, prev_ts[ch])]]
  /\ LET inc == PreIncrement(num[ch])
     IN /\ num' = [num EXCEPT ![ch] = inc.counter]
        /\ sends' = [sends EXCEPT ![ch] =
                       Append(@, [seq |-> inc.passed, status |-> status])]
        /\ diag' = IF SendFailed(status)
                     THEN [diag EXCEPT ![ch] =
                             Append(@, [seq |-> inc.passed] @@ checkLaserScan(msg, lookup))]
                     ELSE diag
  /\ UNCHANGED <<check_in, check_out, nodeVars, inVars, runVars, recvVars, verVars>>

\* odom_callback: the datagram with the next number and one sendData, whose
\* status is dropped.
odom_callback(status) ==
  /\ init_pc = "done"
  /\ "odom" \in senders
  /\ ReadingsHandled < MaxReadings
  /\ LET inc == PreIncrement(num["odom"])
     IN /\ num' = [num EXCEPT !["odom"] = inc.counter]
        /\ sends' = [sends EXCEPT !["odom"] =
                       Append(@, [seq |-> inc.passed, status |-> status])]
  /\ UNCHANGED <<diag, prev_ts, scans_sent, check_in, check_out,
                 nodeVars, inVars, runVars, recvVars, verVars>>

\* ========================================================================
\* Specifications
\* ========================================================================
RecvIdle ==
  /\ stream = [c \in Channels |-> <<>>]
  /\ delivered = [c \in Channels |-> 0]
  /\ rpos = [c \in Channels |-> 0]
  /\ pub = [c \in Channels |-> <<>>]
  /\ last = [c \in Channels |-> "none"]
  /\ att_start = [c \in Channels |-> 0]
  /\ closed = [c \in Channels |-> FALSE]
  /\ rlog = [c \in Channels |-> ""]
  /\ running = [c \in Channels |-> TRUE]
  /\ pose_in = NoPoseRecord
  /\ pose_out = <<>>
  /\ rec_in = NoRecord
  /\ rec_done = FALSE
  /\ rec_pub = <<>>
  /\ rec_tf = <<>>

VerIdle ==
  /\ actual = REQUIRED_MODULE_VERSIONS
  /\ vc_done = FALSE
  /\ vc_result = FALSE

CallbacksIdle ==
  /\ active = [g \in Groups |-> Idle]
  /\ last_recording_name = ""
  /\ last_map_name = ""
  /\ log = <<>>
  /\ done = <<>>
  /\ ticks = 0
  /\ alive = "running"
  /\ shutdown = <<>>
  /\ num = [ch \in SendChannels |-> 0]
  /\ sends = [ch \in SendChannels |-> <<>>]
  /\ diag = [ch \in SendChannels |-> <<>>]
  /\ prev_ts = [ch \in LaserChannels |-> 0]
  /\ scans_sent = [ch \in LaserChannels |->
                     [before |-> 0, stamp |-> 0, received |-> 0, scan_time |-> 0]]

CheckIdle ==
  /\ check_in = [msg |-> NoCheck, lookup |-> [found |-> FALSE, value |-> ""]]
  /\ check_out = <<>>

\* The node as constructed, before init().
NodeConstructed ==
  /\ init_pc = "start"
  /\ init_error = "none"
  /\ token = NoToken
  /\ timer_active = FALSE
  /\ calls = <<>>
  /\ config_written = EmptyDoc
  /\ provide = [laser |-> FALSE, laser2 |-> FALSE, odom |-> FALSE]
  /\ services = {}
  /\ seed_sub = FALSE
  /\ senders = {}
  /\ receivers = {}

AllEnabledConfig ==
  ("ClientSensor.laser.type" :> Str("simple")) @@
  ("ClientSensor.enableLaser2" :> Bool("true")) @@
  ("ClientSensor.laser2.type" :> Str("simple")) @@
  ("ClientSensor.enableOdometry" :> Bool("true"))

\* The node after a successful init() against an appliance with every
\* sensor channel enabled.
NodeInitialized ==
  /\ in_login = "ok"
  /\ in_token \in Tokens
  /\ app_config = AllEnabledConfig
  /\ overrides = EmptyDoc
  /\ actual = REQUIRED_MODULE_VERSIONS
  /\ vc_done = TRUE
  /\ vc_result = TRUE
  /\ init_pc = "done"
  /\ init_error = "none"
  /\ token = in_token
  /\ timer_active = TRUE
  /\ calls = InitCalls(in_token)
  /\ config_written = AllEnabledConfig
  /\ provide = [laser |-> TRUE, laser2 |-> TRUE, odom |-> TRUE]
  /\ services = ServiceNames
  /\ seed_sub = TRUE
  /\ senders = SendChannels
  /\ receivers = ReceiveChannels

\* ---- init() ----
Init ==
  /\ RecvIdle
  /\ CallbacksIdle
  /\ CheckIdle
  /\ in_login \in LoginAnswers
  /\ in_token \in Tokens
  /\ app_config \in AppConfigs
  /\ overrides \in ParameterSets
  /\ actual \in InitActuals
  /\ vc_done = FALSE
  /\ vc_result = FALSE
  /\ NodeConstructed

Next ==
  \/ InitLogin
  \/ InitCreateTimer
  \/ InitVersionGate
  \/ syncConfig
  \/ InitServices
  \/ InitSenders
  \/ setupBinaryReceiverInterfaces
  \/ \E ub \in NullDerefOutcomes : Destructor(ub)

Spec == Init /\ [][Next]_vars

\* ---- the receive channels ----
InitRecv ==
  /\ stream \in StreamAssignments
  /\ delivered = [c \in Channels |-> 0]
  /\ rpos = [c \in Channels |-> 0]
  /\ pub = [c \in Channels |-> <<>>]
  /\ last = [c \in Channels |-> "none"]
  /\ att_start = [c \in Channels |-> 0]
  /\ closed = [c \in Channels |-> FALSE]
  /\ rlog = [c \in Channels |-> ""]
  /\ running = [c \in Channels |-> TRUE]
  /\ pose_in = NoPoseRecord
  /\ pose_out = <<>>
  /\ rec_in = NoRecord
  /\ rec_done = FALSE
  /\ rec_pub = <<>>
  /\ rec_tf = <<>>
  /\ CallbacksIdle
  /\ CheckIdle
  /\ NodeInitialized
  /\ in_token = "s1"

NextRecv ==
  \E c \in Channels :
    \/ \E k \in 1..(2 * MaxRecords) : Deliver(c, k)
    \/ PeerClose(c)
    \/ onReadEvent(c)

SpecRecv == InitRecv /\ [][NextRecv]_vars

\* ---- the localization pose channel as a function of the decoded record ----
InitPose ==
  /\ stream = [c \in Channels |-> <<>>]
  /\ delivered = [c \in Channels |-> 0]
  /\ rpos = [c \in Channels |-> 0]
  /\ pub = [c \in Channels |-> <<>>]
  /\ last = [c \in Channels |-> "none"]
  /\ att_start = [c \in Channels |-> 0]
  /\ closed = [c \in Channels |-> FALSE]
  /\ rlog = [c \in Channels |-> ""]
  /\ running = [c \in Channels |-> TRUE]
  /\ pose_in \in DecodedPoseRecords
  /\ pose_out = <<>>
  /\ rec_in = NoRecord
  /\ rec_done = FALSE
  /\ rec_pub = <<>>
  /\ rec_tf = <<>>
  /\ CallbacksIdle
  /\ CheckIdle
  /\ NodeInitialized
  /\ in_token = "s1"

NextPose == ClientLocalizationPose_tryToParseData

SpecPose == InitPose /\ [][NextPose]_vars

\* ---- one record on any receive channel ----
InitChan ==
  /\ stream = [c \in Channels |-> <<>>]
  /\ delivered = [c \in Channels |-> 0]
  /\ rpos = [c \in Channels |-> 0]
  /\ pub = [c \in Channels |-> <<>>]
  /\ last = [c \in Channels |-> "none"]
  /\ att_start = [c \in Channels |-> 0]
  /\ closed = [c \in Channels |-> FALSE]
  /\ rlog = [c \in Channels |-> ""]
  /\ running = [c \in Channels |-> TRUE]
  /\ pose_in = NoPoseRecord
  /\ pose_out = <<>>
  /\ rec_in \in [channel : ReceiveChannels, outcome : ConverterOutcomes,
                  pose : ChannelPoses]
  /\ rec_done = FALSE
  /\ rec_pub = <<>>
  /\ rec_tf = <<>>
  /\ CallbacksIdle
  /\ CheckIdle
  /\ NodeInitialized
  /\ in_token = "s1"

NextChan == ChannelTryToParseData

SpecChan == InitChan /\ [][NextChan]_vars

\* ---- the version gate as a function of its input ----
InitVer ==
  /\ RecvIdle
  /\ CallbacksIdle
  /\ CheckIdle
  /\ in_login = "ok"
  /\ in_token = "s1"
  /\ app_config = AllEnabledConfig
  /\ overrides = EmptyDoc
  /\ NodeConstructed
  /\ \E D \in DeviationSets : \E g \in [D -> 0..4] : \E extras \in BOOLEAN :
       actual = Deviate(D, g, extras)
  /\ vc_done = FALSE
  /\ vc_result = FALSE

NextVer == CheckModuleVersions

SpecVer == InitVer /\ [][NextVer]_vars

\* ---- the timer, service and seed callbacks ----
InitRun ==
  /\ RecvIdle
  /\ CallbacksIdle
  /\ CheckIdle
  /\ NodeInitialized

NextRun ==
  \/ \E cb \in Callbacks : \E req \in Requests(cb) : Begin(cb, req)
  \/ \E g \in Groups : \E outcome \in CallOutcomes : End(g, outcome)

SpecRun == InitRun /\ [][NextRun]_vars

\* ---- the sensor callbacks ----
InitSend ==
  /\ RecvIdle
  /\ CallbacksIdle
  /\ CheckIdle
  /\ NodeInitialized
  /\ in_token = "s1"

NextSend ==
  \/ \E ch \in LaserChannels : \E msg \in Scans : \E status \in SendingStatus :
       \E lookup \in Lookups : laser_callback(ch, msg, status, lookup)
  \/ \E status \in SendingStatus : odom_callback(status)

SpecSend == InitSend /\ [][NextSend]_vars

\* ---- checkLaserScan on its own ----
InitCheck ==
  /\ RecvIdle
  /\ CallbacksIdle
  /\ NodeInitialized
  /\ in_token = "s1"
  /\ check_in \in [msg : CheckedScans, lookup : Lookups]
  /\ check_out = <<>>

NextCheck == CheckLaserScan

SpecCheck == InitCheck /\ [][NextCheck]_vars

\* ========================================================================
\* Properties
\* ========================================================================

\* ---- C1 -----------------------------------------------------------------
\* What the read handler publishes when the whole stream arrives in one
\* readiness event.
WholeStreamMessages(s) == ReadLoop(s, 0, Len(s), <<>>, 0).out

\* C1: partial-datagram safety.  On every receive channel, once a stream of
\* whole records has arrived and been read, in whatever pieces it arrived,
\* the messages published are those published when it arrives in one piece.
C1_PartialDatagramSafety ==
  \A c \in Channels :
    (delivered[c] = Len(stream[c]) /\ rpos[c] = delivered[c])
      => pub[c] = WholeStreamMessages(stream[c])

\* ---- C2 -----------------------------------------------------------------
\* C2: a decode attempt that ends 'incomplete' consumes nothing: after it,
\* the reader stands where the attempt started.
C2_IncompleteConsumesNothing ==
  \A c \in Channels : last[c] = "incomplete" => rpos[c] = att_start[c]

\* ---- C3 -----------------------------------------------------------------
Compatible(module_versions) ==
  \A m \in RequiredNames :
    /\ m \in DOMAIN module_versions
    /\ module_versions[m][1] = REQUIRED_MODULE_VERSIONS[m][1]
    /\ module_versions[m][2] >= REQUIRED_MODULE_VERSIONS[m][2]

\* C3: check_module_versions returns true exactly when every module of the
\* registry is reported with the required major version and at least the
\* required minor version; modules the registry does not name do not
\* change the result.
C3_VersionCheck ==
  vc_done =>
    /\ vc_result = Compatible(actual)
    /\ vc_result =
         check_module_versions(Restrict(actual, DOMAIN actual \cap RequiredNames))

\* A check that failed on the minor version of Session alone, with
\* unregistered modules reported as well.
C3_Witness ==
  /\ vc_done
  /\ ~vc_result
  /\ "Session" \in DOMAIN actual
  /\ actual["Session"] = <<3, 0>>
  /\ "Diagnostic" \in DOMAIN actual
  /\ \A m \in RequiredNames \ {"Session"} :
       m \in DOMAIN actual /\ actual[m] = REQUIRED_MODULE_VERSIONS[m]

\* ---- C4 -----------------------------------------------------------------
\* C4: when the version check fails, init() aborts with nothing left in
\* operation: no config call was issued, no service or subscription is
\* registered, no dispatcher is started and no refresh timer is active.
C4_NoPartialOperation ==
  (init_pc = "aborted" /\ init_error = "incompatible") =>
    /\ \A i \in DOMAIN calls : calls[i].method \notin {"getConfigList", "setConfigList"}
    /\ services = {}
    /\ ~seed_sub
    /\ senders = {}
    /\ receivers = {}
    /\ ~timer_active

\* ---- C5 -----------------------------------------------------------------
\* C5: when login fails, init() does not proceed: the login attempt is the
\* only appliance call, no refresh timer is created, and no service,
\* subscription or dispatcher is started.
C5_LoginFailureStops ==
  init_error \in {"AuthError", "UnreachableError"} =>
    /\ init_pc = "aborted"
    /\ Len(calls) = 1 /\ calls[1].method = "login"
    /\ token = NoToken
    /\ ~timer_active
    /\ services = {}
    /\ ~seed_sub
    /\ senders = {}
    /\ receivers = {}

C5_Witness ==
  /\ init_pc = "aborted"
  /\ init_error = "AuthError"
  /\ in_login = "AuthError"

\* ---- C6 -----------------------------------------------------------------
\* C6: at most one appliance RPC is in flight: the refresh, the service
\* callbacks and the set-seed callback never execute at the same time.
C6_OneCallInFlight == Cardinality(Busy) <= 1

\* ---- C7 -----------------------------------------------------------------
ControlCallbacks == (ServiceNames \ {"get_config_entry"}) \cup {"set_seed"}

ChannelState(c) ==
  <<stream[c], delivered[c], rpos[c], pub[c], last[c], att_start[c], closed[c]>>

\* C8: the receive channels are isolated.  A step of one channel (bytes
\* arriving, a close, a read event however it ends) leaves every other
\* channel's bytes, reader and published messages as they were, and a
\* channel with bytes waiting can always run its read handler, whatever
\* state the other channels are in.
C8_ChannelsIsolated ==
  /\ [][\A c \in Channels :
          ChannelState(c)' # ChannelState(c)
            => \A d \in Channels \ {c} : ChannelState(d)' = ChannelState(d)]_vars
  /\ [](\A d \in Channels : delivered[d] > rpos[d] => ENABLED onReadEvent(d))

\* One channel's last read event ended incomplete or with an error, with
\* bytes consumed, and another channel has decoded and published a record.
C8_Witness ==
  \E c, d \in Channels :
    /\ c # d
    /\ last[c] \in {"incomplete", "error"}
    /\ rpos[c] > 0
    /\ last[d] = "ok"
    /\ Len(pub[d]) >= 1

\* ---- C9 -----------------------------------------------------------------
SeqNumbers(ch) == [i \in 1..Len(sends[ch]) |-> sends[ch][i].seq]

\* C9: the datagrams of one send channel carry 1, 2, 3, ...; the channel's
\* counter is the number of its datagrams, never decreases, goes up by one
\* per reading, and is changed only by a reading on its own channel.
C9_SequenceNumbers ==
  /\ [](\A ch \in SendChannels :
          /\ SeqNumbers(ch) = [i \in 1..Len(sends[ch]) |-> i]
          /\ num[ch] = Len(sends[ch]))
  /\ [][\A ch \in SendChannels :
          /\ num'[ch] \in {num[ch], num[ch] + 1}
          /\ num'[ch] # num[ch] =>
               /\ Len(sends'[ch]) = Len(sends[ch]) + 1
               /\ \A other \in SendChannels \ {ch} : num'[other] = num[other]]_vars

C9_Witness ==
  /\ SeqNumbers("laser") = <<1, 2>>
  /\ SeqNumbers("odom") = <<1>>
  /\ num["laser2"] = 0

\* ---- C10 ----------------------------------------------------------------
\* C10: every reading's datagram is handed to sendData exactly once, a
\* failed datagram is not sent again, the laser check runs for exactly the
\* laser datagrams whose send failed, once each, and never for odometry.
C10_OneSendPerReading ==
  \A ch \in SendChannels :
    /\ Len(sends[ch]) = num[ch]
    /\ \A i, j \in 1..Len(sends[ch]) : sends[ch][i].seq = sends[ch][j].seq => i = j
    /\ \A i, j \in 1..Len(diag[ch]) : diag[ch][i].seq = diag[ch][j].seq => i = j
    /\ {diag[ch][i].seq : i \in 1..Len(diag[ch])} =
         IF ch \in LaserChannels
           THEN {sends[ch][i].seq : i \in {k \in 1..Len(sends[ch]) :
                                              sends[ch][k].status = "IO_EXCEPTION"}}
           ELSE {}

\* A laser datagram whose send failed and was checked, followed by the next
\* reading's datagram, sent successfully and not checked.
C10_Witness ==
  /\ Len(sends["laser"]) = 2
  /\ sends["laser"][1] = [seq |-> 1, status |-> "IO_EXCEPTION"]
  /\ sends["laser"][2] = [seq |-> 2, status |-> "OK"]
  /\ Len(diag["laser"]) = 1
  /\ diag["laser"][1].seq = 1

\* ---- C11 ----------------------------------------------------------------
SeedsDone(inMapFrame) ==
  {i \in 1..Len(done) :
     done[i].cb = "set_seed" /\ ((done[i].req[1] = "map") = inMapFrame)}

\* C11: a seed pose in another frame than "map" is rejected with an error
\* log and no appliance call; a seed pose in the map frame issues exactly
\* one clientLocalizationSetSeed call with enforceSeed = true and the
\* pose's x, y and yaw.
C11_SeedFrameGate ==
  /\ \A i \in SeedsDone(FALSE) : done[i].call = 0
  /\ Cardinality({j \in 1..Len(log) : log[j].cb = "set_seed"}) =
       Cardinality(SeedsDone(FALSE))
  /\ \A i \in SeedsDone(TRUE) :
       /\ done[i].call \in 1..Len(calls)
       /\ LET c == calls[done[i].call]
              r == done[i].req
          IN /\ c.cb = "set_seed"
             /\ c.method = "clientLocalizationSetSeed"
             /\ c.args = << <<"enforceSeed", "true">>,
                            <<"seedPose", [x |-> r[2], y |-> r[3],
                                           a |-> getRPY(r[4]).yaw]>> >>
  /\ \A i, j \in SeedsDone(TRUE) : done[i].call = done[j].call => i = j
  /\ Cardinality({k \in 1..Len(calls) : calls[k].cb = "set_seed"}) =
       Cardinality(SeedsDone(TRUE))

\* A rejected pose in frame "odom" and a pose in the map frame, turned by a
\* quarter, whose call has been made.
C11_Witness ==
  /\ SeedsDone(FALSE) # {}
  /\ \E i \in SeedsDone(TRUE) :
       /\ done[i].req[4] = "q_quarter_turn"
       /\ calls[done[i].call].args[2][2].a = 90

\* ---- C12 ----------------------------------------------------------------
Latest(S) == CHOOSE m \in S : \A n \in S : n <= m

\* The name of the last recording started successfully before the i-th
\* returned invocation; empty if there is none.
LastSuccessfulRecording(i) ==
  LET S == {j \in 1..(i - 1) :
              done[j].cb = "start_visual_recording" /\ ~done[j].failed}
  IN IF S = {} THEN "" ELSE done[Latest(S)].req[1]

\* C12: every clientMapStart call carries recordingName = R and
\* clientMapName = M, R being the request's recording_name or, if that is
\* empty, the name of the prior successful recording, and M the request's
\* client_map_name or, if that is empty, "map-from-" followed by R.
C12_MapStartNames ==
  \A i \in 1..Len(done) :
    done[i].cb = "start_map" =>
      LET c == calls[done[i].call]
          R == IF done[i].req[1] # "" THEN done[i].req[1]
               ELSE LastSuccessfulRecording(i)
          M == IF done[i].req[2] # "" THEN done[i].req[2] ELSE "map-from-" \o R
      IN /\ c.method = "clientMapStart"
         /\ c.args = << <<"recordingName", R>>, <<"clientMapName", M>> >>

\* ---- C13 ----------------------------------------------------------------
MapStartsBefore(i) == {j \in 1..(i - 1) : done[j].cb = "start_map"}

UsesLastMapName ==
  \A i \in 1..Len(done) :
    done[i].cb \in {"send_map", "set_map"} =>
      LET used == calls[done[i].call].args[1][2]
          S == MapStartsBefore(i)
      IN IF done[i].req[1] # "" THEN used = done[i].req[1]
         ELSE S # {} => used = calls[done[Latest(S)].call].args[2][2]

C14_FailureReported ==
  \A i \in 1..Len(done) :
    (done[i].cb \in ServiceNames \ {"get_config_entry"} /\ done[i].result = "true")
      => ~done[i].failed

\* ---- C15 ----------------------------------------------------------------
Pos(e) == {i \in 1..Len(shutdown) : shutdown[i] = e}

\* C15: at shutdown every started send dispatcher is stopped and joined,
\* then the receive dispatchers are stopped, then the refresh timer is
\* cancelled; after it no receive loop runs and no refresh fires.
C15_ShutdownOrder ==
  (alive # "running" /\ init_pc = "done") =>
    /\ \E k \in Pos(Event("stop", receivers)) :
         \E t \in Pos(Event("cancel_timer", {})) :
           /\ k < t
           /\ \A ch \in senders :
                \E i \in Pos(Event("stop", {ch})) : \E j \in Pos(Event("join", {ch})) :
                  i < j /\ j < k
    /\ ~timer_active

C17_SendersFollowFlags ==
  IF init_pc \in {"senders_created", "done"}
    THEN /\ "laser" \in senders <=>
              config_written["ClientSensor.laser.type"].text = "simple"
         /\ "laser2" \in senders <=>
              /\ config_written["ClientSensor.enableLaser2"].text = "true"
              /\ config_written["ClientSensor.laser2.type"].text = "simple"
         /\ "odom" \in senders <=>
              config_written["ClientSensor.enableOdometry"].text = "true"
    ELSE senders = {}

\* laser2 alone is enabled, and laser alone is disabled.
C17_Witness ==
  /\ init_pc = "done"
  /\ senders = {"laser2"}
  /\ config_written["ClientSensor.laser.type"].text = "none"

\* ---- C18 ----------------------------------------------------------------
SupportedOverrides == {k \in DOMAIN overrides : overrides[k].type \in SupportedTypes}

Refreshes == {i \in 1..Len(done) : done[i].cb = "refresh"}

\* C19: refresh() is invoked on the ticks of a 30-second timer, only after
\* login; a failed refresh is logged and not fatal: the timer stays active
\* and the next tick invokes refresh() again.
C19_RefreshEveryTick ==
  /\ \A i \in Refreshes :
       /\ calls[done[i].call].method = "refresh"
       /\ \E l \in 1..(done[i].call - 1) : calls[l].method = "login"
       /\ done[i].req = <<30 * Cardinality({j \in Refreshes : j <= i})>>
  /\ Cardinality({j \in 1..Len(log) : log[j].cb = "refresh"}) =
       Cardinality({i \in Refreshes : done[i].failed})
  /\ (\E i \in Refreshes : done[i].failed) =>
       /\ timer_active
       /\ alive = "running"
       /\ (active["services"] = Idle /\ Len(done) + Cardinality(Busy) < MaxRuntimeCalls)
            => ENABLED Begin("refresh", <<(ticks + 1) * 30>>)

\* A refresh that failed, and the refresh of the next tick.
C19_Witness ==
  \E i, j \in Refreshes :
    /\ i < j
    /\ done[i].failed /\ done[i].req = <<30>>
    /\ done[j].req = <<60>>

\* ---- C20 ----------------------------------------------------------------
\* C20: the published pose-with-uncertainty has a 36-element covariance
\* whose positions 0, 1, 5, 7, 11, 35 hold the six decoded values in order,
\* every other position being zero, and the pose and header of the decoded
\* pose.
C20_CovariancePacking ==
  pose_out # <<>> =>
    LET m == pose_out[1].pose
        v == pose_in.covariance
    IN /\ DOMAIN m.pose.covariance = 0..35
       /\ m.pose.covariance[0] = v[0]
       /\ m.pose.covariance[1] = v[1]
       /\ m.pose.covariance[5] = v[2]
       /\ m.pose.covariance[7] = v[3]
       /\ m.pose.covariance[11] = v[4]
       /\ m.pose.covariance[35] = v[5]
       /\ \A i \in (0..35) \ {0, 1, 5, 7, 11, 35} : m.pose.covariance[i] = 0
       /\ m.pose.pose = pose_in.pose.pose
       /\ m.header = pose_in.pose.header

\* A published record whose six values are all non-zero and not all equal.
C20_Witness ==
  /\ pose_out # <<>>
  /\ pose_in.covariance = [i \in 0..5 |-> IF i \in {0, 2, 4} THEN 1 ELSE 2]
  /\ pose_out[1].pose.pose.covariance[35] = 2

\* ------------------------------------------------------------------------
\* C21: checkLaserScan accepts a scan of N ranges exactly when the end angle
\* angle_min + (N - 1) * angle_increment is at most half an increment (in
\* absolute value) off angle_max, and reports it invalid otherwise; the
\* scan 0, 0.01, 101 passes with angle_max 1.0 and fails with 1.5.
\* ------------------------------------------------------------------------
EndAngleOff(m) == m.angle_min + (m.n_ranges - 1) * m.angle_increment - m.angle_max

Accepted == check_out[1].finding # "angle_invalid"

ArrivedRecords(c) == ReadLoop(stream[c], 0, delivered[c], <<>>, 0).out

C22_WakeupDecodesAll ==
  [][\A c \in Channels :
       (onReadEvent(c) /\ delivered[c] > rpos[c]) =>
         /\ pub'[c] = ArrivedRecords(c)
         /\ last'[c] \in {"ok", "incomplete", "error"}
         /\ last'[c] = "ok" => rpos'[c] = delivered[c]]_vars

\* ------------------------------------------------------------------------
\* C23: a decode error other than "incomplete" is caught and logged inside
\* onReadEvent and never leaves it: the reactor keeps running with the
\* socket registered, and the next readable notification starts decoding
\* again.
\* ------------------------------------------------------------------------
C23_ErrorCaught ==
  /\ [](\A c \in Channels :
          /\ running[c]
          /\ last[c] = "error" => rlog[c] = "Caught exception in ReceivingInterface!")
  /\ [][\A c \in Channels :
          (onReadEvent(c) /\ last[c] = "error" /\ delivered[c] > rpos[c])
            => rpos'[c] > rpos[c]]_vars

\* A decode error has been logged and bytes wait for the next notification.
C23_Witness ==
  \E c \in Channels :
    /\ last[c] = "error"
    /\ rlog[c] = "Caught exception in ReceivingInterface!"
    /\ running[c]
    /\ delivered[c] > rpos[c]

\* ------------------------------------------------------------------------
\* C24: a readable notification with no bytes available is logged as a
\* possible close of the peer, makes no decode attempt, publishes nothing
\* and leaves the reactor running with the handler registered.
\* ------------------------------------------------------------------------
C24_ZeroBytes ==
  [][\A c \in Channels :
       (onReadEvent(c) /\ delivered[c] = rpos[c]) =>
         /\ rlog'[c] = "received msg of length 0... Connection closed?"
         /\ pub'[c] = pub[c]
         /\ rpos'[c] = rpos[c]
         /\ att_start'[c] = att_start[c]
         /\ running'[c]
         /\ ENABLED onReadEvent(c)]_vars

\* The peer has closed after a record was published, and the notification
\* has been handled.
C24_Witness ==
  \E c \in Channels :
    /\ closed[c]
    /\ last[c] = "zero"
    /\ rlog[c] = "received msg of length 0... Connection closed?"
    /\ pub[c] # <<>>
    /\ running[c]

\* ------------------------------------------------------------------------
\* C25: a transform with parent "map" and the sensor frame as child goes
\* out exactly once for every record decoded on the map visualization, the
\* recording visualization and the localization pose channel, with the
\* position, orientation and timestamp of the record's pose; no other
\* channel sends one, the localization visualization included.
\* ------------------------------------------------------------------------
TransformChannels ==
  {"client_map_visualization", "client_recording_visualization",
   "client_localization_pose"}

C25_TransformPerRecord ==
  (rec_done /\ rec_in.outcome = "ok") =>
    IF rec_in.channel \in TransformChannels
      THEN /\ Len(rec_tf) = 1
           /\ rec_tf[1].frame_id = "map"
           /\ rec_tf[1].child_frame_id = LASER_FRAME_ID
           /\ rec_tf[1].translation = rec_in.pose.pose.position
           /\ rec_tf[1].rotation = rec_in.pose.pose.orientation
           /\ rec_tf[1].stamp = rec_in.pose.header.stamp
      ELSE rec_tf = <<>>

\* A recording visualization record with a pose off the default has been
\* decoded and its transform sent.
C25_Witness ==
  /\ rec_done
  /\ rec_in.outcome = "ok"
  /\ rec_in.channel = "client_recording_visualization"
  /\ rec_in.pose.pose.position = <<3, 4, 0>>
  /\ rec_in.pose.header.stamp = 8
  /\ Len(rec_tf) = 1

\* ------------------------------------------------------------------------
\* C26: a laser scan without a scan_time is sent with its stamp minus the
\* stamp of the previous scan of the same channel, whatever scan_time that
\* one had; the first scan of a channel stays without; a scan with a
\* scan_time is sent as it is; the channels do not share the stamp.
\* ------------------------------------------------------------------------
C26_ScanTimeFromPrevious ==
  \A ch \in LaserChannels :
    num[ch] > 0 =>
      LET r == scans_sent[ch]
      IN r.scan_time = IF r.received # 0 THEN r.received
                       ELSE IF num[ch] = 1 THEN 0
                       ELSE r.stamp - r.before

\* ------------------------------------------------------------------------
\* C27: with useIntensities "true" and ranges and intensities of different
\* lengths, checkLaserScan reports the mismatch, whether or not the end
\* angle of the scan is consistent.
\* ------------------------------------------------------------------------
C27_MismatchReported ==
  (/\ check_out # <<>>
   /\ check_in.lookup.found
   /\ check_in.lookup.value = "true"
   /\ check_in.msg.n_ranges # check_in.msg.n_intensities)
    => check_out[1].finding = "length_mismatch"

\* ------------------------------------------------------------------------
\* C28: at shutdown only the send dispatchers init() created and started
\* are stopped and joined: a channel whose flag was false, and every
\* channel of a bridge whose init() was aborted, is neither dereferenced
\* nor stopped nor joined.
\* ------------------------------------------------------------------------
C28_OnlyStartedDispatchers ==
  \A i \in 1..Len(shutdown) :
    LET e == shutdown[i]
    IN e.on \cap SendChannels # {} =>
         /\ e.op \in {"stop", "join"}
         /\ e.on \subseteq senders

\* ------------------------------------------------------------------------
\* C29: the outputs of one record go out all together or not at all: an
\* attempt that ends "incomplete" or with an error publishes nothing and
\* sends no transform; a successful one publishes each output message of
\* its channel exactly once: control mode 1, each map channel 1, map and
\* recording visualization 4, localization visualization 3, localization
\* pose 3, global-align visualization 3.
\* ------------------------------------------------------------------------
OutputCount(c) ==
  CASE c = "client_control_mode" -> 1
    [] c \in {"client_map_map", "client_recording_map", "client_localization_map"} -> 1
    [] c \in {"client_map_visualization", "client_recording_visualization"} -> 4
    [] c = "client_localization_visualization" -> 3
    [] c = "client_localization_pose" -> 3
    [] c = "client_global_align_visualization" -> 3

C29_AllOrNothing ==
  rec_done =>
    IF rec_in.outcome = "ok"
      THEN /\ Len(rec_pub) = OutputCount(rec_in.channel)
           /\ \A i, j \in 1..Len(rec_pub) :
                (rec_pub[i].publisher = rec_pub[j].publisher
                   \/ rec_pub[i].message = rec_pub[j].message) => i = j
      ELSE rec_pub = <<>> /\ rec_tf = <<>>

\* A map visualization record whose decoding ended "incomplete" has been
\* attempted.
C29_Witness ==
  /\ rec_done
  /\ rec_in.channel = "client_map_visualization"
  /\ rec_in.outcome = "incomplete"
  /\ rec_pub = <<>>

\* ------------------------------------------------------------------------
\* C30: the remembered names change only through a successful request: a
\* start-visual-recording or map-start request whose call fails leaves the
\* remembered recording name and map name as they were.
\* ------------------------------------------------------------------------
LastSuccessfulMapName ==
  LET S == {j \in 1..Len(done) : done[j].cb = "start_map" /\ ~done[j].failed}
  IN IF S = {} THEN "" ELSE calls[done[Latest(S)].call].args[2][2]

C30_NamesFromSuccess ==
  active["services"] = Idle =>
    /\ last_recording_name = LastSuccessfulRecording(Len(done) + 1)
    /\ last_map_name = LastSuccessfulMapName
====
